---- MODULE Spec2Model ----
(***************************************************************************)
(* Model of the order validation and execution pipeline of the trading     *)
(* bot: bot/validators.py (Validator), trading_bot/bot/client.py           *)
(* (Signer/Transport) and trading_bot/bot/orders.py (Executor).            *)
(*                                                                         *)
(* Encoding of Python values                                               *)
(*   str            a sequence of one-character strings, "" is << >>       *)
(*   Optional[T]    None is << >>, a present value v is << v >>            *)
(*   Enum member    its .value as a TLA+ string ("BUY", "LIMIT", "GTC")    *)
(*   Decimal        a record [kind, neg, coef, exp]: sign, integer         *)
(*                  coefficient and exponent, as decimal.Decimal keeps     *)
(*                  them; kind is "F" (finite), "Inf", "NaN" or "sNaN"     *)
(*   message        a sequence of text fragments, the concatenation of     *)
(*                  which is the Python string                             *)
(***************************************************************************)
EXTENDS Integers, Sequences, FiniteSets, TLC

\* ------------------------------------------------------------------------
\* Bounds of the model
\* ------------------------------------------------------------------------
MaxNumLen == 4
MaxSymbolLen == 13

\* ------------------------------------------------------------------------
\* Python str primitives
\* ------------------------------------------------------------------------
None == << >>
Some(v) == << v >>

Lowercase ==
  << "a","b","c","d","e","f","g","h","i","j","k","l","m",
     "n","o","p","q","r","s","t","u","v","w","x","y","z" >>
Uppercase ==
  << "A","B","C","D","E","F","G","H","I","J","K","L","M",
     "N","O","P","Q","R","S","T","U","V","W","X","Y","Z" >>
Digits == << "0","1","2","3","4","5","6","7","8","9" >>
Whitespace == { " ", "\t", "\n" }

Range(f) == { f[i] : i \in DOMAIN f }
IndexOf(seq, c) == CHOOSE i \in DOMAIN seq : seq[i] = c

\* str.upper() and str.lower(), of ASCII text
UpperChar(c) ==
  IF c \in Range(Lowercase) THEN Uppercase[IndexOf(Lowercase, c)] ELSE c
LowerChar(c) ==
  IF c \in Range(Uppercase) THEN Lowercase[IndexOf(Uppercase, c)] ELSE c
Upper(s) == [i \in DOMAIN s |-> UpperChar(s[i])]
Lower(s) == [i \in DOMAIN s |-> LowerChar(s[i])]

RECURSIVE LStrip(_)
LStrip(s) ==
  IF s # << >> /\ Head(s) \in Whitespace THEN LStrip(Tail(s)) ELSE s
RECURSIVE RStrip(_)
RStrip(s) ==
  IF s # << >> /\ s[Len(s)] \in Whitespace
  THEN RStrip(SubSeq(s, 1, Len(s) - 1)) ELSE s
Strip(s) == RStrip(LStrip(s))

EndsWith(s, suffix) ==
  /\ Len(s) >= Len(suffix)
  /\ SubSeq(s, Len(s) - Len(suffix) + 1, Len(s)) = suffix
StartsWith(s, prefix) ==
  /\ Len(s) >= Len(prefix)
  /\ SubSeq(s, 1, Len(prefix)) = prefix

\* Python truthiness of an Optional[str]: None and "" are falsy
Falsy(opt) == opt = None \/ opt = Some(<< >>)

AllDigits(s) == \A i \in DOMAIN s : s[i] \in Range(Digits)
DigitVal(c) == IndexOf(Digits, c) - 1

RECURSIVE DigitsToNat(_)
DigitsToNat(s) ==
  IF s = << >> THEN 0
  ELSE 10 * DigitsToNat(SubSeq(s, 1, Len(s) - 1)) + DigitVal(s[Len(s)])

RECURSIVE NatToDigits(_)
NatToDigits(n) ==
  IF n < 10 THEN << Digits[n + 1] >>
  ELSE NatToDigits(n \div 10) \o << Digits[(n % 10) + 1] >>
IntToStr(n) == IF n < 0 THEN << "-" >> \o NatToDigits(-n) ELSE NatToDigits(n)

Zeros(n) == [i \in 1..n |-> "0"]

RECURSIVE Pow10(_)
Pow10(n) == IF n <= 0 THEN 1 ELSE 10 * Pow10(n - 1)

\* position of the first occurrence of a character of cs in s, 0 when none
FirstOf(s, cs) ==
  IF \E i \in DOMAIN s : s[i] \in cs
  THEN CHOOSE i \in DOMAIN s : s[i] \in cs /\ \A j \in 1..(i - 1) : s[j] \notin cs
  ELSE 0

\* ------------------------------------------------------------------------
\* decimal.Decimal
\* ------------------------------------------------------------------------
DecInvalid == [kind |-> "Invalid", neg |-> FALSE, coef |-> 0, exp |-> 0]
Dec(neg, coef, exp) == [kind |-> "F", neg |-> neg, coef |-> coef, exp |-> exp]

\* Decimal(text): [sign] (digits [. digits] | . digits) [E [sign] digits],
\* Inf, Infinity, NaN[digits], sNaN[digits], case-insensitive, surrounding
\* whitespace ignored; anything else signals InvalidOperation.
Decimal(text) ==
  LET s       == Strip(text)
      hasSign == s # << >> /\ s[1] \in {"+", "-"}
      neg     == hasSign /\ s[1] = "-"
      body    == Lower(IF hasSign THEN Tail(s) ELSE s)
      ePos    == FirstOf(body, {"e"})
      mant    == IF ePos = 0 THEN body ELSE SubSeq(body, 1, ePos - 1)
      expo    == IF ePos = 0 THEN << >> ELSE SubSeq(body, ePos + 1, Len(body))
      eSigned == expo # << >> /\ expo[1] \in {"+", "-"}
      eDigits == IF eSigned THEN Tail(expo) ELSE expo
      dotPos  == FirstOf(mant, {"."})
      intPart == IF dotPos = 0 THEN mant ELSE SubSeq(mant, 1, dotPos - 1)
      frac    == IF dotPos = 0 THEN << >> ELSE SubSeq(mant, dotPos + 1, Len(mant))
      expVal  == IF ePos = 0 THEN 0
                 ELSE IF eSigned /\ expo[1] = "-" THEN 0 - DigitsToNat(eDigits)
                 ELSE DigitsToNat(eDigits)
  IN  IF body \in { <<"i","n","f">>, <<"i","n","f","i","n","i","t","y">> }
      THEN [kind |-> "Inf", neg |-> neg, coef |-> 0, exp |-> 0]
      ELSE IF StartsWith(body, <<"n","a","n">>)
              /\ AllDigits(SubSeq(body, 4, Len(body)))
      THEN [kind |-> "NaN", neg |-> neg, coef |-> 0, exp |-> 0]
      ELSE IF StartsWith(body, <<"s","n","a","n">>)
              /\ AllDigits(SubSeq(body, 5, Len(body)))
      THEN [kind |-> "sNaN", neg |-> neg, coef |-> 0, exp |-> 0]
      ELSE IF /\ AllDigits(intPart)
              /\ AllDigits(frac)
              /\ Len(intPart) + Len(frac) > 0
              /\ (ePos # 0 => (eDigits # << >> /\ AllDigits(eDigits)))
      THEN Dec(neg, DigitsToNat(intPart \o frac), expVal - Len(frac))
      ELSE DecInvalid

IsNaN(d) == d.kind \in {"NaN", "sNaN"}

\* Decimal.__str__: plain notation while the exponent is at most 0 and the
\* value has more than -6 digits left of the point, scientific otherwise
DecStr(d) ==
  LET sign == IF d.neg THEN << "-" >> ELSE << >>
      int  == NatToDigits(d.coef)
      leftdigits == d.exp + Len(int)
      dotplace == IF d.exp <= 0 /\ leftdigits > -6 THEN leftdigits ELSE 1
      intpart == IF dotplace <= 0 THEN << "0" >>
                 ELSE IF dotplace >= Len(int) THEN int \o Zeros(dotplace - Len(int))
                 ELSE SubSeq(int, 1, dotplace)
      fracpart == IF dotplace <= 0 THEN << "." >> \o Zeros(-dotplace) \o int
                  ELSE IF dotplace >= Len(int) THEN << >>
                  ELSE << "." >> \o SubSeq(int, dotplace + 1, Len(int))
      e == leftdigits - dotplace
      exppart == IF e = 0 THEN << >>
                 ELSE << "E" >> \o (IF e > 0 THEN << "+" >> ELSE << >>) \o IntToStr(e)
  IN  CASE d.kind = "Inf"  -> sign \o << "I","n","f","i","n","i","t","y" >>
        [] d.kind = "NaN"  -> sign \o << "N","a","N" >>
        [] d.kind = "sNaN" -> sign \o << "s","N","a","N" >>
        [] OTHER           -> sign \o intpart \o fracpart \o exppart

\* d <= 0 for a Decimal that is not a NaN (the comparison of a NaN signals)
DecLeZero(d) ==
  IF d.kind = "Inf" THEN d.neg ELSE d.neg \/ d.coef = 0

\* a < b for finite strictly positive Decimals: by adjusted exponent, then
\* by the coefficients padded to the same number of digits
DecLtPos(a, b) ==
  LET la == Len(NatToDigits(a.coef))
      lb == Len(NatToDigits(b.coef))
      adja == a.exp + la - 1
      adjb == b.exp + lb - 1
  IN  IF adja # adjb THEN adja < adjb
      ELSE a.coef * Pow10(lb - la) < b.coef * Pow10(la - lb)

\* d < m for a Decimal d > 0 and a finite m > 0
DecLt(d, m) == IF d.kind = "Inf" THEN FALSE ELSE DecLtPos(d, m)

\* ------------------------------------------------------------------------
\* bot/validators.py
\* ------------------------------------------------------------------------
\* members of the enums, in definition order
OrderSide == << "BUY", "SELL" >>
OrderType ==
  << "MARKET", "LIMIT", "STOP", "STOP_MARKET", "TAKE_PROFIT", "TAKE_PROFIT_MARKET" >>
TimeInForce == << "GTC", "IOC", "FOK", "GTX" >>

\* the characters of an enum value
Spell(v) ==
  CASE v = "BUY"    -> <<"B","U","Y">>
    [] v = "SELL"   -> <<"S","E","L","L">>
    [] v = "MARKET" -> <<"M","A","R","K","E","T">>
    [] v = "LIMIT"  -> <<"L","I","M","I","T">>
    [] v = "STOP"   -> <<"S","T","O","P">>
    [] v = "STOP_MARKET" -> <<"S","T","O","P","_","M","A","R","K","E","T">>
    [] v = "TAKE_PROFIT" -> <<"T","A","K","E","_","P","R","O","F","I","T">>
    [] v = "TAKE_PROFIT_MARKET" ->
         <<"T","A","K","E","_","P","R","O","F","I","T","_","M","A","R","K","E","T">>
    [] v = "GTC"    -> <<"G","T","C">>
    [] v = "IOC"    -> <<"I","O","C">>
    [] v = "FOK"    -> <<"F","O","K">>
    [] v = "GTX"    -> <<"G","T","X">>

\* Enum(value): the member whose value is s; ValueError when there is none
HasMember(enum, s) == \E i \in DOMAIN enum : Spell(enum[i]) = s
Member(enum, s) == enum[CHOOSE i \in DOMAIN enum : Spell(enum[i]) = s]

\* ", ".join([m.value for m in enum])
RECURSIVE JoinValues(_)
JoinValues(enum) ==
  IF Len(enum) = 1 THEN Spell(enum[1])
  ELSE Spell(enum[1]) \o << ", " >> \o JoinValues(Tail(enum))

\* outcome of a call: a returned value (with whether a warning was logged) or
\* a raised exception with its str()
Return(v) == [exc |-> "none", msg |-> << >>, val |-> v, warn |-> FALSE]
ReturnWarn(v) == [exc |-> "none", msg |-> << >>, val |-> v, warn |-> TRUE]
Raise(type, m) == [exc |-> type, msg |-> m, val |-> None, warn |-> FALSE]
ValidationError(m) == Raise("ValidationError", m)
\* a comparison involving a NaN signals decimal.InvalidOperation
InvalidOperation == Raise("InvalidOperation", << "[<class 'decimal.InvalidOperation'>]" >>)

SymbolMinLen == 5
SymbolMaxLen == 12
MinQuantity == Dec(FALSE, 1, -5)

\* re.match(r'^[A-Z]{5,12}$', s), for s without a trailing newline
MatchesSymbol(s) ==
  /\ Len(s) >= SymbolMinLen
  /\ Len(s) <= SymbolMaxLen
  /\ \A i \in DOMAIN s : s[i] \in Range(Uppercase)

\* validate_symbol, were a symbol without the USDT/BUSD suffix rejected
validate_symbol_suffix_required(symbol) ==
  LET s == Strip(Upper(symbol))
  IN  IF symbol = << >> THEN ValidationError(<< "Symbol cannot be empty" >>)
      ELSE IF ~ MatchesSymbol(s)
              \/ ~ (EndsWith(s, <<"U","S","D","T">>) \/ EndsWith(s, <<"B","U","S","D">>))
      THEN ValidationError(<< "Invalid symbol format: '" >> \o s
             \o << "'. ", "Symbol should be 5-12 uppercase letters (e.g., BTCUSDT)" >>)
      ELSE Return(s)

validate_symbol(symbol) ==
  LET s == Strip(Upper(symbol))
  IN  IF symbol = << >> THEN ValidationError(<< "Symbol cannot be empty" >>)
      ELSE IF ~ MatchesSymbol(s)
      THEN ValidationError(<< "Invalid symbol format: '" >> \o s
             \o << "'. ", "Symbol should be 5-12 uppercase letters (e.g., BTCUSDT)" >>)
      ELSE IF ~ (EndsWith(s, <<"U","S","D","T">>) \/ EndsWith(s, <<"B","U","S","D">>))
      THEN ReturnWarn(s)
      ELSE Return(s)

validate_side(side) ==
  LET s == Strip(Upper(side))
  IN  IF side = << >> THEN ValidationError(<< "Order side cannot be empty" >>)
      ELSE IF HasMember(OrderSide, s) THEN Return(Member(OrderSide, s))
      ELSE ValidationError(<< "Invalid order side: '" >> \o s
             \o << "'. Must be BUY or SELL" >>)

validate_order_type(order_type) ==
  LET s == Strip(Upper(order_type))
  IN  IF order_type = << >> THEN ValidationError(<< "Order type cannot be empty" >>)
      ELSE IF HasMember(OrderType, s) THEN Return(Member(OrderType, s))
      ELSE ValidationError(<< "Invalid order type: '" >> \o s
             \o << "'. Valid types: " >> \o JoinValues(OrderType))

\* validate_quantity, were the minimum itself rejected (<= for <)
validate_quantity_exclusive(quantity) ==
  LET qty == Decimal(Strip(quantity))
  IN  IF quantity = << >> THEN ValidationError(<< "Quantity cannot be empty" >>)
      ELSE IF qty.kind = "Invalid"
      THEN ValidationError(<< "Invalid quantity format: '" >> \o quantity \o << "'" >>)
      ELSE IF IsNaN(qty) THEN InvalidOperation
      ELSE IF DecLeZero(qty)
      THEN ValidationError(<< "Quantity must be positive, got: " >> \o DecStr(qty))
      ELSE IF DecLt(qty, MinQuantity) \/ qty = MinQuantity
      THEN ValidationError(<< "Quantity too small: " >> \o DecStr(qty))
      ELSE Return(qty)

validate_quantity(quantity) ==
  LET qty == Decimal(Strip(quantity))
  IN  IF quantity = << >> THEN ValidationError(<< "Quantity cannot be empty" >>)
      ELSE IF qty.kind = "Invalid"
      THEN ValidationError(<< "Invalid quantity format: '" >> \o quantity \o << "'" >>)
      ELSE IF IsNaN(qty) THEN InvalidOperation
      ELSE IF DecLeZero(qty)
      THEN ValidationError(<< "Quantity must be positive, got: " >> \o DecStr(qty))
      ELSE IF DecLt(qty, MinQuantity)
      THEN ValidationError(<< "Quantity too small: " >> \o DecStr(qty))
      ELSE Return(qty)

\* the part of validate_price and validate_stop_price after the checks for
\* an absent value: parse, then require a strictly positive value
PositiveDecimal(text, invalidMsg, notPositiveMsg) ==
  LET p == Decimal(Strip(text))
  IN  IF p.kind = "Invalid"
      THEN ValidationError(<< invalidMsg >> \o text \o << "'" >>)
      ELSE IF IsNaN(p) THEN InvalidOperation
      ELSE IF DecLeZero(p) THEN ValidationError(<< notPositiveMsg >> \o DecStr(p))
      ELSE Return(Some(p))

\* validate_price, without the check that a LIMIT order has a price
validate_price_optional(price, order_type) ==
  IF order_type = "MARKET"
  THEN (IF Falsy(price) THEN Return(None) ELSE ReturnWarn(None))
  ELSE IF Falsy(price) THEN Return(None)
  ELSE PositiveDecimal(price[1], "Invalid price format: '", "Price must be positive, got: ")

validate_price(price, order_type) ==
  IF order_type = "LIMIT" /\ Falsy(price)
  THEN ValidationError(<< "Price is required for LIMIT orders" >>)
  ELSE IF order_type = "MARKET"
  THEN (IF Falsy(price) THEN Return(None) ELSE ReturnWarn(None))
  ELSE IF Falsy(price) THEN Return(None)
  ELSE PositiveDecimal(price[1], "Invalid price format: '", "Price must be positive, got: ")

\* validate_stop_price, were only None taken as absent ("is None")
validate_stop_price_none_only(stop_price) ==
  IF stop_price = None THEN Return(None)
  ELSE PositiveDecimal(stop_price[1], "Invalid stop price format: '",
                       "Stop price must be positive, got: ")

validate_stop_price(stop_price) ==
  IF Falsy(stop_price) THEN Return(None)
  ELSE PositiveDecimal(stop_price[1], "Invalid stop price format: '",
                       "Stop price must be positive, got: ")

\* validate_time_in_force, without the early return for MARKET
validate_time_in_force_no_market(tif, order_type) ==
  IF Falsy(tif) /\ order_type = "LIMIT" THEN Return(Some("GTC"))
  ELSE IF Falsy(tif) THEN Return(None)
  ELSE LET s == Strip(Upper(tif[1]))
       IN  IF HasMember(TimeInForce, s) THEN Return(Some(Member(TimeInForce, s)))
           ELSE ValidationError(<< "Invalid time in force: '" >> \o s
                  \o << "'. Valid values: " >> \o JoinValues(TimeInForce))

\* validate_time_in_force, were the GTC default given to every order type
validate_time_in_force_default_all(tif, order_type) ==
  IF order_type = "MARKET" THEN Return(None)
  ELSE IF Falsy(tif) THEN Return(Some("GTC"))
  ELSE LET s == Strip(Upper(tif[1]))
       IN  IF HasMember(TimeInForce, s) THEN Return(Some(Member(TimeInForce, s)))
           ELSE ValidationError(<< "Invalid time in force: '" >> \o s
                  \o << "'. Valid values: " >> \o JoinValues(TimeInForce))

validate_time_in_force(tif, order_type) ==
  IF order_type = "MARKET" THEN Return(None)
  ELSE IF Falsy(tif) /\ order_type = "LIMIT" THEN Return(Some("GTC"))
  ELSE IF Falsy(tif) THEN Return(None)
  ELSE LET s == Strip(Upper(tif[1]))
       IN  IF HasMember(TimeInForce, s) THEN Return(Some(Member(TimeInForce, s)))
           ELSE ValidationError(<< "Invalid time in force: '" >> \o s
                  \o << "'. Valid values: " >> \o JoinValues(TimeInForce))

\* the raw arguments of validate_order_params and place_order
Args(sym, sd, ot, qty, pr, sp, tif) ==
  [symbol |-> sym, side |-> sd, order_type |-> ot, quantity |-> qty,
   price |-> pr, stop_price |-> sp, time_in_force |-> tif]

\* validate_order_params, were the quantity validated before the symbol
validate_order_params_quantity_first(a) ==
  LET PriceStopAndTif(validated_symbol, validated_side, validated_type, validated_qty) ==
        CHOOSE outcome \in
          { IF validated_price.exc # "none" THEN validated_price
            ELSE IF validated_stop.exc # "none" THEN validated_stop
            ELSE IF validated_tif.exc # "none" THEN validated_tif
            ELSE [exc |-> "none", msg |-> << >>,
                  val |-> [symbol |-> validated_symbol.val,
                           side |-> validated_side.val,
                           order_type |-> validated_type.val,
                           quantity |-> validated_qty.val,
                           price |-> validated_price.val,
                           stop_price |-> validated_stop.val,
                           time_in_force |-> validated_tif.val],
                  warn |-> validated_symbol.warn \/ validated_price.warn] :
              validated_price \in { validate_price(a.price, validated_type.val) },
              validated_stop \in { validate_stop_price(a.stop_price) },
              validated_tif \in
                { validate_time_in_force(a.time_in_force, validated_type.val) } } : TRUE
  IN  CHOOSE outcome \in
       { IF validated_qty.exc # "none" THEN validated_qty
         ELSE IF validated_symbol.exc # "none" THEN validated_symbol
         ELSE IF validated_side.exc # "none" THEN validated_side
         ELSE IF validated_type.exc # "none" THEN validated_type
         ELSE PriceStopAndTif(validated_symbol, validated_side, validated_type,
                              validated_qty) :
           validated_symbol \in { validate_symbol(a.symbol) },
           validated_side \in { validate_side(a.side) },
           validated_type \in { validate_order_type(a.order_type) },
           validated_qty \in { validate_quantity(a.quantity) } } : TRUE

\* the seven validators run in this order; the first exception propagates.
\* Each validator is called once and its outcome is bound to a name, as the
\* assignments of the code do.
validate_order_params(a) ==
  LET PriceStopAndTif(validated_symbol, validated_side, validated_type, validated_qty) ==
        CHOOSE outcome \in
          { IF validated_price.exc # "none" THEN validated_price
            ELSE IF validated_stop.exc # "none" THEN validated_stop
            ELSE IF validated_tif.exc # "none" THEN validated_tif
            ELSE [exc |-> "none", msg |-> << >>,
                  val |-> [symbol |-> validated_symbol.val,
                           side |-> validated_side.val,
                           order_type |-> validated_type.val,
                           quantity |-> validated_qty.val,
                           price |-> validated_price.val,
                           stop_price |-> validated_stop.val,
                           time_in_force |-> validated_tif.val],
                  warn |-> validated_symbol.warn \/ validated_price.warn] :
              validated_price \in { validate_price(a.price, validated_type.val) },
              validated_stop \in { validate_stop_price(a.stop_price) },
              validated_tif \in
                { validate_time_in_force(a.time_in_force, validated_type.val) } } : TRUE
  IN  CHOOSE outcome \in
       { IF validated_symbol.exc # "none" THEN validated_symbol
         ELSE IF validated_side.exc # "none" THEN validated_side
         ELSE IF validated_type.exc # "none" THEN validated_type
         ELSE IF validated_qty.exc # "none" THEN validated_qty
         ELSE PriceStopAndTif(validated_symbol, validated_side, validated_type,
                              validated_qty) :
           validated_symbol \in { validate_symbol(a.symbol) },
           validated_side \in { validate_side(a.side) },
           validated_type \in { validate_order_type(a.order_type) },
           validated_qty \in { validate_quantity(a.quantity) } } : TRUE

\* ------------------------------------------------------------------------
\* trading_bot/bot/client.py
\* ------------------------------------------------------------------------
\* outcome of a client call: as Return/Raise, with the status_code and
\* error_code attributes of BinanceClientError
ClientReturn(v) ==
  [exc |-> "none", msg |-> << >>, val |-> Some(v),
   status_code |-> None, error_code |-> None]
ClientRaise(type, m, status, code) ==
  [exc |-> type, msg |-> m, val |-> None,
   status_code |-> status, error_code |-> code]
NoReply == ClientRaise("pending", << >>, None, None)

\* exception classes; every class but KeyboardInterrupt derives from Exception
ClientErrors == { "BinanceClientError", "BinanceAPIError", "BinanceNetworkError",
                  "BinanceAuthError" }
IsInstance(exc, class) ==
  CASE class = "BinanceClientError" -> exc \in ClientErrors
    [] class = "Exception"          -> exc # "KeyboardInterrupt"
    [] OTHER                        -> exc = class

\* dict.get(key) and dict.get(key, default) of a JSON object
Get(d, k) == IF k \in DOMAIN d THEN Some(d[k]) ELSE None
GetOr(d, k, default) == IF k \in DOMAIN d THEN d[k] ELSE default

\* urllib.parse.quote_plus of one character of a parameter value
QuoteChar(c) ==
  IF c \in Range(Uppercase) \cup Range(Lowercase) \cup Range(Digits)
          \cup {"_", ".", "-", "~"}
  THEN << c >>
  ELSE IF c = " " THEN << "+" >>
  ELSE IF c = "+" THEN << "%", "2", "B" >>
  ELSE << "%", c >>       \* the %XX escape of c, kept symbolic
RECURSIVE QuotePlus(_)
QuotePlus(s) == IF s = << >> THEN << >> ELSE QuoteChar(Head(s)) \o QuotePlus(Tail(s))

\* urlencode(params): key=value pairs joined by "&", in insertion order
RECURSIVE urlencode(_)
urlencode(params) ==
  IF params = << >> THEN << >>
  ELSE LET kv == Head(params)
           pair == << kv[1], "=" >> \o QuotePlus(kv[2])
       IN  IF Len(params) = 1 THEN pair
           ELSE pair \o << "&" >> \o urlencode(Tail(params))

\* hmac.new(secret, query_string, sha256).hexdigest(), kept symbolic: the
\* digest is determined by the key and the signed text
ApiKey == << "k", "3", "y" >>
ApiSecret == << "s", "3", "c", "r", "3", "t" >>
\* the environment of a configured process
Credentials == [BINANCE_API_KEY |-> Some(ApiKey), BINANCE_API_SECRET |-> Some(ApiSecret)]
generate_signature(params) ==
  << "HMAC-SHA256(" >> \o ApiSecret \o << "," >> \o urlencode(params) \o << ")" >>

\* BinanceFuturesClient.place_order: the parameters of the order request
OrderRequestParams(symbol, side, order_type, quantity, price, stop_price, time_in_force) ==
  << << "symbol", symbol >>, << "side", side >>, << "type", order_type >>,
     << "quantity", quantity >> >>
  \o (IF Falsy(price) THEN << >> ELSE << << "price", price[1] >> >>)
  \o (IF Falsy(stop_price) THEN << >> ELSE << << "stopPrice", stop_price[1] >> >>)
  \o (IF Falsy(time_in_force) THEN << >>
      ELSE << << "timeInForce", time_in_force[1] >> >>)

\* SignedParams, were the signature computed before the timestamp is added
SignedParamsUnstamped(params, now) ==
  LET stamped == Append(params, << "timestamp", IntToStr(now) >>)
  IN  Append(stamped, << "signature", generate_signature(params) >>)

\* _make_request, before the dispatch: a signed request gets the timestamp,
\* then the signature of everything that is in params at that point
SignedParams(params, now) ==
  LET stamped == Append(params, << "timestamp", IntToStr(now) >>)
  IN  Append(stamped, << "signature", generate_signature(stamped) >>)
MakeRequest(method, endpoint, params, signed, now) ==
  [method |-> method, endpoint |-> endpoint,
   params |-> IF signed THEN SignedParams(params, now) ELSE params]

\* what the HTTP exchange can produce: a response with a status and a body,
\* a timeout, a connectivity failure, another httpx error (ProtocolError,
\* DecodingError, ...), or an interrupt of the process while waiting
OrderBody ==
  [orderId |-> 12345, clientOrderId |-> << "x", "1" >>,
   symbol |-> << "B","T","C","U","S","D","T" >>, side |-> << "B","U","Y" >>,
   type |-> << "L","I","M","I","T" >>, status |-> << "N","E","W" >>,
   origQty |-> << "0", ".", "0", "0", "1" >>, executedQty |-> << "0" >>,
   price |-> << "5", "0", "0", "0", "0" >>, avgPrice |-> << "0", ".", "0" >>,
   timeInForce |-> << "G","T","C" >>]
PartialBody == [orderId |-> 7, status |-> << "N","E","W" >>]
EmptyBody == [k \in {} |-> << >>]
ErrorBody == [code |-> -2010, msg |-> << "Insufficient balance" >>]
Bodies ==
  { [json |-> "object", obj |-> b] :
      b \in { OrderBody, PartialBody, EmptyBody, ErrorBody } }
  \cup { [json |-> "array", obj |-> EmptyBody], [json |-> "invalid", obj |-> EmptyBody] }
Statuses == { 200, 400, 401, 500 }
HttpOutcomes ==
  { [kind |-> "response", status |-> s, body |-> b] : s \in Statuses, b \in Bodies }
  \cup { [kind |-> k, status |-> 0, body |-> [json |-> "invalid", obj |-> EmptyBody]] :
           k \in { "timeout", "network", "transport", "interrupt" } }

\* _make_request, from the dispatch on: the parsed body, or the exception
\* that leaves the method
Classify(o) ==
  CASE o.kind = "timeout" ->
         ClientRaise("BinanceNetworkError", << "Request timed out: ", "timeout" >>, None, None)
    [] o.kind = "network" ->
         ClientRaise("BinanceNetworkError", << "Network error: ", "connect" >>, None, None)
    [] o.kind = "transport" ->
         ClientRaise("httpx.TransportError", << "protocol" >>, None, None)
    [] o.kind = "interrupt" ->
         ClientRaise("KeyboardInterrupt", << >>, None, None)
    [] o.kind = "response" /\ o.body.json = "invalid" ->
         ClientRaise("JSONDecodeError", << "Expecting value: line 1 column 1 (char 0)" >>,
                     None, None)
    [] o.kind = "response" /\ o.status >= 400 /\ o.body.json = "array" ->
         ClientRaise("AttributeError", << "'list' object has no attribute 'get'" >>,
                     None, None)
    [] o.kind = "response" /\ o.status >= 400 /\ o.body.json = "object" ->
         LET error_code == GetOr(o.body.obj, "code", -1)
             error_msg  == GetOr(o.body.obj, "msg", << "Unknown error" >>)
         IN  ClientRaise("BinanceAPIError",
                         << "Binance API error: [" >> \o IntToStr(error_code)
                           \o << "] " >> \o error_msg,
                         Some(o.status), Some(error_code))
    [] OTHER -> ClientReturn(o.body)

\* NewClient, were only the API key required
NewClientKeyOnly(api_key, api_secret, environ) ==
  LET key    == IF Falsy(api_key) THEN environ.BINANCE_API_KEY ELSE api_key
      secret == IF Falsy(api_secret) THEN environ.BINANCE_API_SECRET ELSE api_secret
  IN  IF Falsy(key)
      THEN ClientRaise("BinanceAuthError",
                       << "API credentials not found. Set BINANCE_API_KEY and BINANCE_API_SECRET environment variables or pass them to the constructor." >>,
                       None, None)
      ELSE ClientReturn([api_key |-> key[1],
                         api_secret |-> IF Falsy(secret) THEN << >> ELSE secret[1]])

\* BinanceFuturesClient.__init__: "a or b" is b when a is None or empty; the
\* credentials, or the BinanceAuthError raised before httpx.Client is made
NewClient(api_key, api_secret, environ) ==
  LET key    == IF Falsy(api_key) THEN environ.BINANCE_API_KEY ELSE api_key
      secret == IF Falsy(api_secret) THEN environ.BINANCE_API_SECRET ELSE api_secret
  IN  IF Falsy(key) \/ Falsy(secret)
      THEN ClientRaise("BinanceAuthError",
                       << "API credentials not found. Set BINANCE_API_KEY and BINANCE_API_SECRET environment variables or pass them to the constructor." >>,
                       None, None)
      ELSE ClientReturn([api_key |-> key[1], api_secret |-> secret[1]])

\* TruthyInt, were an order id tested with "is not None"
TruthyIntNotNone(n) == n # None

\* "not order_id" of an Optional[int]: None and 0 are falsy
TruthyInt(n) == n # None /\ n[1] # 0
\* client.cancel_order: the ValueError raised when no identifier is given
NoIdentifier ==
  ClientRaise("ValueError", << "Either order_id or client_order_id must be provided" >>,
              None, None)
\* client.cancel_order: the parameters of the DELETE
CancelParams(symbol, order_id, client_order_id) ==
  << << "symbol", symbol >> >>
  \o (IF TruthyInt(order_id) THEN << << "orderId", IntToStr(order_id[1]) >> >> ELSE << >>)
  \o (IF Falsy(client_order_id) THEN << >>
      ELSE << << "origClientOrderId", client_order_id[1] >> >>)
\* get_position_info and get_open_orders: the optional symbol filter
FilterParams(symbol) ==
  IF Falsy(symbol) THEN << >> ELSE << << "symbol", symbol[1] >> >>

\* answers of the other endpoints: a ticker, an account, a list of positions
\* or of open orders
BTCUSDT == << "B","T","C","U","S","D","T" >>
TickerBody == [symbol |-> BTCUSDT, price |-> << "5","0","0","0","0",".","1","0" >>]
ZeroTicker == [symbol |-> BTCUSDT, price |-> << "0",".","0","0" >>]
BadTicker == [symbol |-> BTCUSDT, price |-> << "n","/","a" >>]
AccountBody ==
  [totalWalletBalance |-> << "1","0","0" >>, availableBalance |-> << "9","0" >>]
PositionItem ==
  [symbol |-> BTCUSDT, positionAmt |-> << "0",".","5" >>, entryPrice |-> << "1" >>,
   markPrice |-> << "2" >>, unRealizedProfit |-> << "1" >>, leverage |-> << "5" >>]
FlatPositionItem == [symbol |-> BTCUSDT, positionAmt |-> << "0" >>]
OpenOrderItem ==
  [orderId |-> 7, symbol |-> BTCUSDT, side |-> << "B","U","Y" >>,
   type |-> << "L","I","M","I","T" >>, origQty |-> << "1" >>, price |-> << "2" >>,
   status |-> << "N","E","W" >>, time |-> 1]
\* json "list" is a JSON array of the one element obj
ListBodies ==
  { [json |-> "list", obj |-> b] :
      b \in { PositionItem, FlatPositionItem, OpenOrderItem, PartialBody } }
ObjectBodies(objects) == { [json |-> "object", obj |-> b] : b \in objects }
NoBody == [json |-> "invalid", obj |-> EmptyBody]
Failures ==
  { [kind |-> k, status |-> 0, body |-> NoBody] :
      k \in { "timeout", "network", "transport", "interrupt" } }
Responses(statuses, bodies) ==
  { [kind |-> "response", status |-> s, body |-> b] : s \in statuses, b \in bodies }
\* what the HTTP exchange of a request to an endpoint can produce
Outcomes(endpoint) ==
  CASE endpoint = "/fapi/v1/ticker/price" ->
         Responses({ 200 }, ObjectBodies({ TickerBody, ZeroTicker, BadTicker, EmptyBody })
                              \cup { [json |-> "array", obj |-> EmptyBody], NoBody })
         \cup Responses({ 400 }, ObjectBodies({ ErrorBody }) \cup { NoBody })
         \cup Failures
    [] endpoint = "/fapi/v1/order" -> HttpOutcomes
    [] OTHER ->
         Responses({ 200 }, ObjectBodies({ AccountBody, EmptyBody }) \cup ListBodies
                              \cup { [json |-> "array", obj |-> EmptyBody], NoBody })
         \cup Responses({ 401 }, ObjectBodies({ ErrorBody }) \cup { NoBody })
         \cup Failures

\* ------------------------------------------------------------------------
\* trading_bot/bot/orders.py
\* ------------------------------------------------------------------------
Failure(message) ==
  [success |-> FALSE, order_id |-> None, client_order_id |-> None,
   symbol |-> None, side |-> None, order_type |-> None, status |-> None,
   quantity |-> None, executed_qty |-> None, price |-> None,
   avg_price |-> None, time_in_force |-> None,
   error_message |-> Some(message), raw_response |-> None]

\* Success, were the message set to "" rather than left None
SuccessWithMessage(response) ==
  [success |-> TRUE,
   order_id |-> Get(response, "orderId"),
   client_order_id |-> Get(response, "clientOrderId"),
   symbol |-> Get(response, "symbol"),
   side |-> Get(response, "side"),
   order_type |-> Get(response, "type"),
   status |-> Get(response, "status"),
   quantity |-> Get(response, "origQty"),
   executed_qty |-> Get(response, "executedQty"),
   price |-> Get(response, "price"),
   avg_price |-> Get(response, "avgPrice"),
   time_in_force |-> Get(response, "timeInForce"),
   error_message |-> Some(<< >>),
   raw_response |-> Some(response)]

Success(response) ==
  [success |-> TRUE,
   order_id |-> Get(response, "orderId"),
   client_order_id |-> Get(response, "clientOrderId"),
   symbol |-> Get(response, "symbol"),
   side |-> Get(response, "side"),
   order_type |-> Get(response, "type"),
   status |-> Get(response, "status"),
   quantity |-> Get(response, "origQty"),
   executed_qty |-> Get(response, "executedQty"),
   price |-> Get(response, "price"),
   avg_price |-> Get(response, "avgPrice"),
   time_in_force |-> Get(response, "timeInForce"),
   error_message |-> None,
   raw_response |-> Some(response)]

\* HandleException, were the detail of the exception left out of the message
HandleExceptionNoDetail(e) ==
  IF IsInstance(e.exc, "ValidationError")
  THEN Failure(<< "Validation error: " >>)
  ELSE IF IsInstance(e.exc, "BinanceAPIError")
  THEN Failure(<< "Binance API error: " >>)
  ELSE IF IsInstance(e.exc, "BinanceClientError")
  THEN Failure(<< "Client error: " >>)
  ELSE Failure(<< "Unexpected error: " >>)

\* HandleException, were the clause of the base class BinanceClientError
\* placed before the clause of its subclass BinanceAPIError
HandleExceptionBaseFirst(e) ==
  IF IsInstance(e.exc, "ValidationError")
  THEN Failure(<< "Validation error: " >> \o e.msg)
  ELSE IF IsInstance(e.exc, "BinanceClientError")
  THEN Failure(<< "Client error: " >> \o e.msg)
  ELSE IF IsInstance(e.exc, "BinanceAPIError")
  THEN Failure(<< "Binance API error: " >> \o e.msg)
  ELSE Failure(<< "Unexpected error: " >> \o e.msg)

\* the except clauses of place_order, in their order; e is an Exception
HandleException(e) ==
  IF IsInstance(e.exc, "ValidationError")
  THEN Failure(<< "Validation error: " >> \o e.msg)
  ELSE IF IsInstance(e.exc, "BinanceAPIError")
  THEN Failure(<< "Binance API error: " >> \o e.msg)
  ELSE IF IsInstance(e.exc, "BinanceClientError")
  THEN Failure(<< "Client error: " >> \o e.msg)
  ELSE Failure(<< "Unexpected error: " >> \o e.msg)

\* bool(d) of an Optional[Decimal]: None and zero are falsy
TruthyDec(d) == d # None /\ ~ (d[1].kind = "F" /\ d[1].coef = 0)

\* ClientOrderParams, were the stop price not passed on
ClientOrderParamsNoStop(p) ==
  OrderRequestParams(
    p.symbol, Spell(p.side), Spell(p.order_type), DecStr(p.quantity),
    IF TruthyDec(p.price) THEN Some(DecStr(p.price[1])) ELSE None,
    None,
    IF p.time_in_force # None THEN Some(Spell(p.time_in_force[1])) ELSE None)

\* the arguments place_order passes to client.place_order
ClientOrderParams(p) ==
  OrderRequestParams(
    p.symbol, Spell(p.side), Spell(p.order_type), DecStr(p.quantity),
    IF TruthyDec(p.price) THEN Some(DecStr(p.price[1])) ELSE None,
    IF TruthyDec(p.stop_price) THEN Some(DecStr(p.stop_price[1])) ELSE None,
    IF p.time_in_force # None THEN Some(Spell(p.time_in_force[1])) ELSE None)

\* orders.cancel_order, from the outcome r of client.cancel_order: the
\* dictionary returned, or the exception that is not a BinanceClientError
cancel_order(r) ==
  IF r.exc = "none"
  THEN Return([success |-> TRUE, response |-> r.val[1]])
  ELSE IF IsInstance(r.exc, "BinanceClientError")
  THEN Return([success |-> FALSE, error |-> r.msg])
  ELSE Raise(r.exc, r.msg)

\* orders.get_current_price, from the outcome r of client.get_ticker_price:
\* Decimal(ticker.get("price", "0")), None on any Exception
get_current_price(r) ==
  IF r.exc = "none"
  THEN IF r.val[1].json # "object" THEN Return(None)
       ELSE LET price == Decimal(GetOr(r.val[1].obj, "price", << "0" >>))
            IN  IF price.kind = "Invalid" THEN Return(None) ELSE Return(Some(price))
  ELSE IF IsInstance(r.exc, "Exception") THEN Return(None)
  ELSE Raise(r.exc, r.msg)

\* ------------------------------------------------------------------------
\* trading_bot/cli.py
\* ------------------------------------------------------------------------
\* the handlers: the status returned, or the exception that reaches main
handle_order_command(order_result) == Return(IF order_result.success THEN 0 ELSE 1)
handle_price_command(price) == Return(IF TruthyDec(price) THEN 0 ELSE 1)

\* the "except BinanceClientError" of a handler that calls the client itself
HandlerExcept(r) ==
  IF IsInstance(r.exc, "BinanceClientError") THEN Return(1) ELSE Raise(r.exc, r.msg)
handle_account_command(r) ==
  IF r.exc # "none" THEN HandlerExcept(r)
  ELSE IF r.val[1].json = "object" THEN Return(0)
  ELSE Raise("AttributeError", << "'list' object has no attribute 'get'" >>)

PositionKeys ==
  { "symbol", "positionAmt", "entryPrice", "markPrice", "unRealizedProfit", "leverage" }
handle_positions_command(r) ==
  IF r.exc # "none" THEN HandlerExcept(r)
  ELSE LET body == r.val[1]
       IN  CASE body.json = "array" -> Return(0)
             [] body.json = "object" ->
                  IF DOMAIN body.obj = {} THEN Return(0)
                  ELSE Raise("AttributeError", << "'str' object has no attribute 'get'" >>)
             [] body.json = "list" ->
                  IF "positionAmt" \notin DOMAIN body.obj THEN Return(0)
                  ELSE LET amount == Decimal(body.obj.positionAmt)
                       IN  IF amount.kind = "Invalid"
                           THEN Raise("ValueError", << "could not convert string to float" >>)
                           ELSE IF amount.kind = "F" /\ amount.coef = 0 THEN Return(0)
                           ELSE IF PositionKeys \subseteq DOMAIN body.obj THEN Return(0)
                           ELSE Raise("KeyError", << "key" >>)

OpenOrderKeys ==
  { "orderId", "symbol", "side", "type", "origQty", "price", "status", "time" }
handle_open_orders_command(r) ==
  IF r.exc # "none" THEN HandlerExcept(r)
  ELSE LET body == r.val[1]
       IN  CASE body.json = "array" -> Return(0)
             [] body.json = "object" ->
                  IF DOMAIN body.obj = {} THEN Return(0)
                  ELSE Raise("TypeError", << "string indices must be integers" >>)
             [] body.json = "list" ->
                  IF OpenOrderKeys \subseteq DOMAIN body.obj THEN Return(0)
                  ELSE Raise("KeyError", << "key" >>)

\* handle_cancel_command, after client.cancel_order
handle_cancel_command(r) ==
  IF r.exc # "none" THEN HandlerExcept(r)
  ELSE IF r.val[1].json = "object" THEN Return(0)
  ELSE Raise("AttributeError", << "'list' object has no attribute 'get'" >>)

\* MainExit, were an exception that reaches main swallowed
MainExitSwallow(outcome) ==
  IF outcome.exc = "none" THEN outcome.val ELSE 0

\* main: the status a handler returned, or the one of the except clause
\* that catches what the handler or the constructor raised
MainExit(outcome) ==
  IF outcome.exc = "none" THEN outcome.val
  ELSE IF IsInstance(outcome.exc, "BinanceClientError") THEN 1
  ELSE IF outcome.exc = "KeyboardInterrupt" THEN 130
  ELSE 1

\* ------------------------------------------------------------------------
\* State
\* ------------------------------------------------------------------------
VARIABLES
  call,      \* a single validator call: the function and its arguments
  ret,       \* the outcome of that call
  args,      \* the raw arguments of the place_order invocation
  pc,        \* where the invocation is
  params,    \* Optional[OrderParams]: the validated parameters
  request,   \* Optional: the request built by the client
  sent,      \* the requests handed to the HTTP connection, in order
  reply,     \* the outcome of client.place_order
  result,    \* Optional[OrderResult]: the value place_order returned
  response,  \* Optional: what the last HTTP exchange produced
  env,       \* BINANCE_API_KEY and BINANCE_API_SECRET of the environment
  connection,  \* the httpx.Client of the client: "none", "open" or "closed"
  exit_status  \* Optional[int]: the status main ended with

vars == << call, ret, args, pc, params, request, sent, reply, result,
           response, env, connection, exit_status >>
\* the process around a call
process == << env, connection, exit_status >>

MaxTime == 2

\* ------------------------------------------------------------------------
\* Inputs
\* ------------------------------------------------------------------------
Rep(c, n) == [i \in 1..n |-> c]
StringsUpTo(chars, n) == UNION { [1..k -> chars] : k \in 0..n }
Optionals(S) == { None } \cup { Some(s) : s \in S }

NumChars == { "1", "5", "9", "-", ".", "e" }
SpecialNums ==
  { << "0" >>, << "-","0" >>, << "0",".","0" >>, << "0","e","5" >>, << " ","1"," " >>,
    << "1"," ","5" >>, << " " >>, << "+","1" >>, << "+",".","5" >>,
    << "n","a","n" >>, << "N","a","N","1" >>, << "s","N","a","N" >>, << "i","n","f" >>,
    << "-","I","n","f" >>, << "I","n","f","i","n","i","t","y" >>, << "a","b","c" >>,
    << "0",".","0","0","0","0","1" >>, << "0",".","0","0","0","0","0","9" >>,
    << "0",".","0","0","0","0","1","0" >>, << "1","E","-","7" >>, << "1","e","5" >>,
    << "5","0","0","0","0" >> }
NumStrings == StringsUpTo(NumChars, MaxNumLen) \cup SpecialNums

USDT == << "U","S","D","T" >>
BUSD == << "B","U","S","D" >>
SymbolTails ==
  { << >>, USDT, Lower(BUSD), << "U","S","D" >>, << "1" >>, << " ", "x" >>, << "_" >> }
SymbolPads == { << >>, << " " >> }
SymbolStrings ==
  { l \o Rep(c, n) \o tail \o r :
      l \in SymbolPads, c \in { "a", "Z" }, n \in 0..MaxSymbolLen,
      tail \in SymbolTails, r \in SymbolPads }

Variants(enum) ==
  UNION { { Spell(enum[i]), Lower(Spell(enum[i])),
            << " " >> \o Lower(Spell(enum[i])) \o << " " >>,
            Spell(enum[i]) \o << "S" >>, Tail(Spell(enum[i])) } : i \in DOMAIN enum }
  \cup { << >>, << " " >>, << "D","A","Y" >> }
SideStrings == Variants(OrderSide)
TypeStrings == Variants(OrderType)
TifStrings == Variants(TimeInForce)
OrderTypes == Range(OrderType)

Calls ==
  { [fn |-> "validate_symbol", arg |-> s, typ |-> "MARKET"] : s \in SymbolStrings }
  \cup { [fn |-> "validate_side", arg |-> s, typ |-> "MARKET"] : s \in SideStrings }
  \cup { [fn |-> "validate_order_type", arg |-> s, typ |-> "MARKET"] : s \in TypeStrings }
  \cup { [fn |-> "validate_quantity", arg |-> s, typ |-> "MARKET"] : s \in NumStrings }
  \cup { [fn |-> "validate_price", arg |-> s, typ |-> ty] :
           s \in Optionals(NumStrings), ty \in OrderTypes }
  \cup { [fn |-> "validate_stop_price", arg |-> s, typ |-> "MARKET"] :
           s \in Optionals(NumStrings) }
  \cup { [fn |-> "validate_time_in_force", arg |-> s, typ |-> ty] :
           s \in Optionals(TifStrings), ty \in OrderTypes }
NoCall == [fn |-> "none", arg |-> << >>, typ |-> "MARKET"]
Pending == Raise("pending", << >>)

SymbolPool ==
  { << " ","b","t","c","u","s","d","t" >>, << "E","T","H","B","T","C" >>, << >> }
SidePool == { << "b","u","y" >>, << " ","S","e","l","l" >>, << "H","O","L","D" >> }
TypePool == { Spell(OrderType[i]) : i \in DOMAIN OrderType } \cup { << "F","O","O" >> }
QuantityPool ==
  { << "0",".","0","0","1" >>, << "-","1" >>, << "9","e","-","6" >>,
    << "n","a","n" >>, << >> }
PricePool ==
  Optionals({ << >>, << " ","0",".","1","0" >>, << "0" >>, << "a","b","c" >>,
              << "n","a","n" >> })
StopPricePool == Optionals({ << >>, << "1","0","0" >>, << "-","1" >> })
TifPool == Optionals({ << >>, << " ","i","o","c"," " >>, << "D","A","Y" >> })
IdleArgs == Args(<< >>, << >>, << >>, << >>, None, None, None)

\* ------------------------------------------------------------------------
\* One validator applied to one input
\* ------------------------------------------------------------------------
InitValidators ==
  /\ call \in Calls
  /\ ret = Pending
  /\ args = IdleArgs
  /\ pc = "Idle"
  /\ params = None
  /\ request = None
  /\ sent = << >>
  /\ reply = NoReply
  /\ result = None
  /\ response = None
  /\ env = Credentials
  /\ connection = "open"
  /\ exit_status = None

Apply(fn, outcome) ==
  /\ call.fn = fn
  /\ ret.exc = "pending"
  /\ ret' = outcome
  /\ UNCHANGED << call, args, pc, params, request, sent, reply, result, response, process >>

CallValidateSymbol == Apply("validate_symbol", validate_symbol(call.arg))
CallValidateSide == Apply("validate_side", validate_side(call.arg))
CallValidateOrderType == Apply("validate_order_type", validate_order_type(call.arg))
CallValidateQuantity == Apply("validate_quantity", validate_quantity(call.arg))
CallValidatePrice == Apply("validate_price", validate_price(call.arg, call.typ))
CallValidateStopPrice == Apply("validate_stop_price", validate_stop_price(call.arg))
CallValidateTimeInForce ==
  Apply("validate_time_in_force", validate_time_in_force(call.arg, call.typ))

NextValidators ==
  \/ CallValidateSymbol
  \/ CallValidateSide
  \/ CallValidateOrderType
  \/ CallValidateQuantity
  \/ CallValidatePrice
  \/ CallValidateStopPrice
  \/ CallValidateTimeInForce

SpecValidators == InitValidators /\ [][NextValidators]_vars

\* ------------------------------------------------------------------------
\* One invocation of place_order
\* ------------------------------------------------------------------------
Init ==
  /\ call = NoCall
  /\ ret = Pending
  /\ args \in { Args(sym, sd, ot, qty, pr, sp, tif) :
                  sym \in SymbolPool, sd \in SidePool, ot \in TypePool,
                  qty \in QuantityPool, pr \in PricePool, sp \in StopPricePool,
                  tif \in TifPool }
  /\ pc = "Start"
  /\ params = None
  /\ request = None
  /\ sent = << >>
  /\ reply = NoReply
  /\ result = None
  /\ response = None
  /\ env = Credentials
  /\ connection = "open"
  /\ exit_status = None

\* orders.py 129-145 and the except clauses: validate the raw arguments
Validate ==
  /\ pc = "Start"
  /\ \E v \in { validate_order_params(args) } :
         IF v.exc = "none"
         THEN /\ params' = Some(v.val)
              /\ pc' = "Validated"
              /\ UNCHANGED result
         ELSE /\ result' = Some(HandleException(v))
              /\ pc' = "Done"
              /\ UNCHANGED params
  /\ UNCHANGED << call, ret, args, request, sent, reply, response, process >>

\* client.place_order and the head of _make_request: build and sign
Sign ==
  /\ pc = "Validated"
  /\ \E now \in 1..MaxTime, order \in { ClientOrderParams(params[1]) } :
       request' = Some(MakeRequest("POST", "/fapi/v1/order", order, TRUE, now))
  /\ pc' = "Signed"
  /\ UNCHANGED << call, ret, args, params, sent, reply, result, response, process >>

\* Send, were a request that timed out sent a second time
SendWithRetry ==
  /\ pc = "Signed"
  /\ \E o \in HttpOutcomes :
       IF o.kind = "timeout"
       THEN \E o2 \in HttpOutcomes :
              /\ sent' = sent \o << request[1], request[1] >>
              /\ response' = Some(o2)
              /\ reply' = Classify(o2)
       ELSE /\ sent' = Append(sent, request[1])
            /\ response' = Some(o)
            /\ reply' = Classify(o)
  /\ pc' = "Replied"
  /\ UNCHANGED << call, ret, args, params, request, result, process >>

\* _make_request from the dispatch on: one HTTP exchange and its outcome
Send ==
  /\ pc = "Signed"
  /\ \E o \in HttpOutcomes :
       /\ sent' = Append(sent, request[1])
       /\ response' = Some(o)
       /\ reply' = Classify(o)
  /\ pc' = "Replied"
  /\ UNCHANGED << call, ret, args, params, request, result, process >>

\* MapResult, were a request that met a network error signed and sent again
MapResultRetry ==
  /\ pc = "Replied"
  /\ IF reply.exc = "none"
     THEN /\ result' =
               Some(IF reply.val[1].json = "object"
                    THEN Success(reply.val[1].obj)
                    ELSE HandleException(
                           ClientRaise("AttributeError",
                                       << "'list' object has no attribute 'get'" >>,
                                       None, None)))
          /\ pc' = "Done"
     ELSE IF reply.exc = "BinanceNetworkError"
     THEN /\ pc' = "Validated"
          /\ UNCHANGED result
     ELSE IF IsInstance(reply.exc, "Exception")
     THEN /\ result' = Some(HandleException(reply))
          /\ pc' = "Done"
     ELSE /\ pc' = "Raised"
          /\ UNCHANGED result
  /\ UNCHANGED << call, ret, args, params, request, sent, reply, response, process >>

\* MapResult, were the final clause "except BaseException": an interrupt
\* of the process is mapped to a failure result like any other exception
MapResultCatchAll ==
  /\ pc = "Replied"
  /\ result' =
       Some(IF reply.exc # "none" THEN HandleException(reply)
            ELSE IF reply.val[1].json = "object" THEN Success(reply.val[1].obj)
            ELSE HandleException(
                   ClientRaise("AttributeError",
                               << "'list' object has no attribute 'get'" >>,
                               None, None)))
  /\ pc' = "Done"
  /\ UNCHANGED << call, ret, args, params, request, sent, reply, response, process >>

\* MapResult, without the final "except Exception" clause
MapResultNarrow ==
  /\ pc = "Replied"
  /\ IF reply.exc = "none" /\ reply.val[1].json = "object"
     THEN /\ result' = Some(Success(reply.val[1].obj))
          /\ pc' = "Done"
     ELSE IF IsInstance(reply.exc, "BinanceClientError")
     THEN /\ result' = Some(HandleException(reply))
          /\ pc' = "Done"
     ELSE /\ pc' = "Raised"
          /\ UNCHANGED result
  /\ UNCHANGED << call, ret, args, params, request, sent, reply, response, process >>

\* orders.py 159-204: the result built from the response, or from the
\* exception; an exception that is not an Exception leaves place_order
MapResult ==
  /\ pc = "Replied"
  /\ IF reply.exc = "none"
     THEN /\ result' =
               Some(IF reply.val[1].json = "object"
                    THEN Success(reply.val[1].obj)
                    ELSE HandleException(
                           ClientRaise("AttributeError",
                                       << "'list' object has no attribute 'get'" >>,
                                       None, None)))
          /\ pc' = "Done"
     ELSE IF IsInstance(reply.exc, "Exception")
     THEN /\ result' = Some(HandleException(reply))
          /\ pc' = "Done"
     ELSE /\ pc' = "Raised"
          /\ UNCHANGED result
  /\ UNCHANGED << call, ret, args, params, request, sent, reply, response, process >>

Next ==
  \/ Validate
  \/ Sign
  \/ Send
  \/ MapResult

Spec == Init /\ [][Next]_vars

\* place_order runs in one thread, each step follows the one before, and
\* the one blocking step, the HTTP exchange, ends at the latest with the
\* timeout of the httpx client (client.py 80): a step that can be taken is
\* taken. validate_order_params returns or raises on every input, so
\* Validate is enabled exactly when pc = "Start", and its weak fairness is
\* written with that condition in place of ENABLED
ValidateFair == []<>(pc # "Start") \/ []<><<Validate>>_vars
FairSpec ==
  Spec /\ ValidateFair /\ WF_vars(Sign) /\ WF_vars(Send) /\ WF_vars(MapResult)

\* ------------------------------------------------------------------------
\* The other entry points: the constructor of the client, cancel_order and
\* get_current_price of orders.py, and main of cli.py
\* ------------------------------------------------------------------------
KeyPool == Optionals({ << >>, ApiKey })
SecretPool == Optionals({ << >>, ApiSecret })
Environments ==
  { [BINANCE_API_KEY |-> k, BINANCE_API_SECRET |-> x] : k \in KeyPool, x \in SecretPool }
OrderIdPool == Optionals({ 0, 7 })
ClientOrderIdPool == Optionals({ << >>, << "x","1" >> })
LowerSymbol == Lower(BTCUSDT)

\* the command lines argparse accepts ("none": no command), and "usage"
\* for those it rejects
Commands ==
  { [name |-> n] : n \in { "none", "usage", "account" } }
  \cup { [name |-> n, symbol |-> sym] :
           n \in { "positions", "open-orders" }, sym \in Optionals({ << >>, LowerSymbol }) }
  \cup { [name |-> "price", symbol |-> LowerSymbol] }
  \cup { [name |-> "cancel", symbol |-> LowerSymbol, order_id |-> i, client_order_id |-> c] :
           i \in OrderIdPool, c \in ClientOrderIdPool }
  \cup { [name |-> "order", symbol |-> sym, side |-> << "b","u","y" >>, order_type |-> ot,
          quantity |-> qty, price |-> pr, stop_price |-> None,
          time_in_force |-> Some(<< "G","T","C" >>)] :
           sym \in { LowerSymbol, << "B","T","C" >> },
           ot \in { << "M","A","R","K","E","T" >>, << "l","i","m","i","t" >> },
           qty \in { << "0",".","0","0","1" >>, << "0" >> },
           pr \in Optionals({ << "5","0","0","0","0" >> }) }

EntryPoints ==
  { [fn |-> "BinanceFuturesClient", api_key |-> k, api_secret |-> x] :
      k \in KeyPool, x \in SecretPool }
  \cup { [fn |-> "cancel_order", symbol |-> BTCUSDT, order_id |-> i, client_order_id |-> c] :
           i \in OrderIdPool, c \in ClientOrderIdPool }
  \cup { [fn |-> "get_current_price", symbol |-> BTCUSDT] }
  \cup { [fn |-> "main", command |-> c] : c \in Commands }

\* main and the constructor start without a client, in any environment;
\* the functions of orders.py are given a client
InitApp ==
  /\ call \in EntryPoints
  /\ IF call.fn \in { "main", "BinanceFuturesClient" }
     THEN env \in Environments /\ connection = "none"
     ELSE env = Credentials /\ connection = "open"
  /\ pc = (CASE call.fn = "main" -> "Main"
             [] call.fn = "BinanceFuturesClient" -> "Construct"
             [] call.fn = "cancel_order" -> "Cancel"
             [] call.fn = "get_current_price" -> "Price")
  /\ ret = Pending
  /\ args = IdleArgs
  /\ params = None
  /\ request = None
  /\ sent = << >>
  /\ reply = NoReply
  /\ result = None
  /\ response = None
  /\ exit_status = None

IsMain == call.fn = "main"
Running(name) == IsMain /\ call.command.name = name
\* where main goes once the client is constructed
Route(name) ==
  CASE name = "order" -> "Order"
    [] name = "price" -> "Price"
    [] name = "cancel" -> "CancelCheck"
    [] OTHER -> "Query"

\* cli.py 356-362: parse the command line; argparse ends the process with
\* status 2 on a command line it rejects; without a command main returns 0
MainParse ==
  /\ pc = "Main"
  /\ IF Running("usage") THEN exit_status' = Some(2) /\ pc' = "Exited"
     ELSE IF Running("none") THEN exit_status' = Some(0) /\ pc' = "Exited"
     ELSE pc' = "Construct" /\ UNCHANGED exit_status
  /\ UNCHANGED << call, ret, args, params, request, sent, reply, result, response,
                  env, connection >>

\* BinanceFuturesClient(): main passes no credentials; a BinanceAuthError
\* is caught by main's "except BinanceClientError"
Construct ==
  /\ pc = "Construct"
  /\ \E made \in { IF IsMain THEN NewClient(None, None, env)
                    ELSE NewClient(call.api_key, call.api_secret, env) } :
       /\ reply' = made
       /\ connection' = (IF made.exc = "none" THEN "open" ELSE connection)
       /\ IF IsMain
          THEN IF made.exc = "none"
               THEN pc' = Route(call.command.name) /\ UNCHANGED exit_status
               ELSE pc' = "Exited" /\ exit_status' = Some(MainExit(made))
          ELSE pc' = (IF made.exc = "none" THEN "Done" ELSE "Raised")
               /\ UNCHANGED exit_status
  /\ UNCHANGED << call, ret, args, params, request, sent, result, response, env >>

\* handle_order_command: the arguments it passes to place_order
OrderCommand ==
  /\ pc = "Order"
  /\ args' = Args(call.command.symbol, Upper(call.command.side),
                  Upper(call.command.order_type), call.command.quantity,
                  call.command.price, call.command.stop_price,
                  call.command.time_in_force)
  /\ pc' = "Start"
  /\ UNCHANGED << call, ret, params, request, sent, reply, result, response, process >>

\* handle_order_command after place_order, and main's except clauses
OrderExit ==
  /\ IsMain
  /\ pc \in { "Done", "Raised" }
  /\ exit_status' =
       Some(MainExit(IF pc = "Done" THEN handle_order_command(result[1])
                     ELSE Raise(reply.exc, reply.msg)))
  /\ pc' = "Exited"
  /\ UNCHANGED << call, ret, args, params, request, sent, reply, result, response,
                  env, connection >>

\* client.get_ticker_price: an unsigned GET
PriceRequest ==
  /\ pc = "Price"
  /\ request' =
       Some(MakeRequest("GET", "/fapi/v1/ticker/price",
                        << << "symbol", IF IsMain THEN Upper(call.command.symbol)
                                        ELSE call.symbol >> >>,
                        FALSE, 0))
  /\ pc' = "Requested"
  /\ UNCHANGED << call, ret, args, params, sent, reply, result, response, process >>

\* get_account_info, get_position_info, get_open_orders: a signed GET
QueryRequest ==
  /\ pc = "Query"
  /\ \E now \in 1..MaxTime :
       request' =
         Some(CASE Running("account") ->
                     MakeRequest("GET", "/fapi/v2/account", << >>, TRUE, now)
                [] Running("positions") ->
                     MakeRequest("GET", "/fapi/v2/positionRisk",
                                 FilterParams(IF Falsy(call.command.symbol) THEN None
                                              ELSE Some(Upper(call.command.symbol[1]))),
                                 TRUE, now)
                [] Running("open-orders") ->
                     MakeRequest("GET", "/fapi/v1/openOrders",
                                 FilterParams(IF Falsy(call.command.symbol) THEN None
                                              ELSE Some(Upper(call.command.symbol[1]))),
                                 TRUE, now))
  /\ pc' = "Requested"
  /\ UNCHANGED << call, ret, args, params, sent, reply, result, response, process >>

\* handle_cancel_command 326-328: without an identifier, status 1 at once
CancelCommand ==
  /\ pc = "CancelCheck"
  /\ IF ~ TruthyInt(call.command.order_id) /\ Falsy(call.command.client_order_id)
     THEN exit_status' = Some(1) /\ pc' = "Exited"
     ELSE pc' = "Cancel" /\ UNCHANGED exit_status
  /\ UNCHANGED << call, ret, args, params, request, sent, reply, result, response,
                  env, connection >>

\* client.cancel_order: the ValueError, or the signed DELETE
CancelRequest ==
  /\ pc = "Cancel"
  /\ \E c \in { IF IsMain THEN [call.command EXCEPT !.symbol = Upper(@)] ELSE call } :
       IF ~ TruthyInt(c.order_id) /\ Falsy(c.client_order_id)
       THEN /\ reply' = NoIdentifier
            /\ pc' = "Answered"
            /\ UNCHANGED request
       ELSE /\ \E now \in 1..MaxTime :
                 request' =
                   Some(MakeRequest("DELETE", "/fapi/v1/order",
                                    CancelParams(c.symbol, c.order_id, c.client_order_id),
                                    TRUE, now))
            /\ pc' = "Requested"
            /\ UNCHANGED reply
  /\ UNCHANGED << call, ret, args, params, sent, result, response, process >>

\* _make_request from the dispatch on, for the requests above
Exchange ==
  /\ pc = "Requested"
  /\ \E o \in Outcomes(request[1].endpoint) :
       /\ sent' = Append(sent, request[1])
       /\ response' = Some(o)
       /\ reply' = Classify(o)
  /\ pc' = "Answered"
  /\ UNCHANGED << call, ret, args, params, request, result, process >>

\* orders.cancel_order 315-326
CancelResult ==
  /\ pc = "Answered"
  /\ call.fn = "cancel_order"
  /\ ret' = cancel_order(reply)
  /\ pc' = (IF ret'.exc = "none" THEN "Done" ELSE "Raised")
  /\ UNCHANGED << call, args, params, request, sent, reply, result, response, process >>

\* orders.get_current_price 340-347
PriceResult ==
  /\ pc = "Answered"
  /\ call.fn = "get_current_price" \/ Running("price")
  /\ ret' = get_current_price(reply)
  /\ pc' = (IF IsMain THEN "PriceReturned"
            ELSE IF ret'.exc = "none" THEN "Done" ELSE "Raised")
  /\ UNCHANGED << call, args, params, request, sent, reply, result, response, process >>

\* handle_price_command after get_current_price, and main's except clauses
PriceExit ==
  /\ pc = "PriceReturned"
  /\ exit_status' =
       Some(MainExit(IF ret.exc = "none" THEN handle_price_command(ret.val) ELSE ret))
  /\ pc' = "Exited"
  /\ UNCHANGED << call, ret, args, params, request, sent, reply, result, response,
                  env, connection >>

\* the handlers that call the client themselves, and main's except clauses
HandlerExit ==
  /\ pc = "Answered"
  /\ IsMain
  /\ call.command.name \in { "account", "positions", "open-orders", "cancel" }
  /\ exit_status' =
       Some(MainExit(CASE Running("account") -> handle_account_command(reply)
                       [] Running("positions") -> handle_positions_command(reply)
                       [] Running("open-orders") -> handle_open_orders_command(reply)
                       [] Running("cancel") -> handle_cancel_command(reply)))
  /\ pc' = "Exited"
  /\ UNCHANGED << call, ret, args, params, request, sent, reply, result, response,
                  env, connection >>

NextApp ==
  \/ MainParse
  \/ Construct
  \/ OrderCommand
  \/ Validate
  \/ Sign
  \/ Send
  \/ MapResult
  \/ OrderExit
  \/ PriceRequest
  \/ QueryRequest
  \/ CancelCommand
  \/ CancelRequest
  \/ Exchange
  \/ CancelResult
  \/ PriceResult
  \/ PriceExit
  \/ HandlerExit

SpecApp == InitApp /\ [][NextApp]_vars

\* ------------------------------------------------------------------------
\* Properties
\* ------------------------------------------------------------------------
Returned == pc = "Done"
Finished == pc \in { "Done", "Raised" }
Validation == validate_order_params(args)
ErrorMessage == result[1].error_message[1]

\* the exception that ended the invocation, "none" when there was none
EndingException ==
  IF Validation.exc # "none" THEN Validation.exc
  ELSE IF reply.exc # "none" THEN reply.exc
  ELSE IF reply.val[1].json # "object" THEN "AttributeError"
  ELSE "none"
Taxonomy == { "ValidationError" } \cup ClientErrors

\* the step the invocation is at has what it needs to be taken
CanStep ==
  \/ pc = "Start"
  \/ pc = "Validated" /\ params # None
  \/ pc = "Signed" /\ request # None
  \/ pc = "Replied" /\ reply.exc # "pending"

\* C1: place_order never raises an Exception and always returns an
\* OrderResult: whatever the raw arguments and whatever the client call
\* produced (a response, a BinanceAPIError, a BinanceNetworkError, or any
\* other Exception such as a body that is not JSON), the invocation is at a
\* step it can take until it has returned, only an interrupt of the process
\* leaves it by an exception, and an exception outside the taxonomy gives a
\* failure result whose message starts with "Unexpected error: ".
C1_AlwaysReturns ==
  /\ pc = "Raised" => reply.exc = "KeyboardInterrupt"
  /\ ~ Finished => CanStep
  /\ Returned => result # None
  /\ Returned /\ EndingException \notin Taxonomy \cup { "none" } =>
       /\ ~ result[1].success
       /\ Head(ErrorMessage) = "Unexpected error: "
C1_Witness ==
  /\ Returned
  /\ reply.exc = "JSONDecodeError"
  /\ Head(ErrorMessage) = "Unexpected error: "

\* C2: whenever validate_order_params does not accept the raw arguments,
\* place_order returns the failure "Validation error: <detail>" and the
\* client is not called.
C2_ValidationFailure ==
  pc # "Start" /\ Validation.exc # "none" =>
    /\ Returned
    /\ result = Some(Failure(<< "Validation error: " >> \o Validation.msg))
    /\ request = None
    /\ sent = << >>

\* C3: a returned OrderResult is a success without a message and with the
\* payload of the exchange as raw_response, or a failure with a message and
\* none of order_id, client_order_id, status, quantity, executed_qty, price,
\* avg_price, time_in_force, raw_response.
C3_NoHybrid ==
  Returned =>
    LET r == result[1]
    IN  IF r.success
        THEN /\ r.error_message = None
             /\ reply.exc = "none"
             /\ r.raw_response = Some(reply.val[1].obj)
        ELSE /\ r.error_message # None
             /\ r.order_id = None
             /\ r.client_order_id = None
             /\ r.status = None
             /\ r.quantity = None
             /\ r.executed_qty = None
             /\ r.price = None
             /\ r.avg_price = None
             /\ r.time_in_force = None
             /\ r.raw_response = None
C3_Witness ==
  /\ Returned
  /\ result[1].success
  /\ result[1].order_id = Some(12345)
  /\ result[1].raw_response = Some(OrderBody)

\* C4: an invocation sends at most one request: once the client call has
\* produced its outcome, whatever it was, exactly one request has been sent
\* and the invocation is past the step that sends.
C4_AtMostOneRequest ==
  /\ Len(sent) <= 1
  /\ reply.exc # "pending" =>
       Len(sent) = 1 /\ pc \in { "Replied", "Done", "Raised" }
C4_Witness ==
  /\ Returned
  /\ reply.exc = "BinanceNetworkError"
  /\ ~ result[1].success
  /\ Len(sent) = 1

\* the outcome of the validator of the i-th field, in the order symbol, side,
\* order type, quantity, price, stop price, time in force
FieldOutcome(a, i) ==
  CASE i = 1 -> validate_symbol(a.symbol)
    [] i = 2 -> validate_side(a.side)
    [] i = 3 -> validate_order_type(a.order_type)
    [] i = 4 -> validate_quantity(a.quantity)
    [] i = 5 -> validate_price(a.price, validate_order_type(a.order_type).val)
    [] i = 6 -> validate_stop_price(a.stop_price)
    [] i = 7 -> validate_time_in_force(a.time_in_force,
                                       validate_order_type(a.order_type).val)
\* the first field whose validator raises, 0 when every field is valid
FirstInvalid(a) ==
  IF FieldOutcome(a, 1).exc # "none" THEN 1
  ELSE IF FieldOutcome(a, 2).exc # "none" THEN 2
  ELSE IF FieldOutcome(a, 3).exc # "none" THEN 3
  ELSE IF FieldOutcome(a, 4).exc # "none" THEN 4
  ELSE IF FieldOutcome(a, 5).exc # "none" THEN 5
  ELSE IF FieldOutcome(a, 6).exc # "none" THEN 6
  ELSE IF FieldOutcome(a, 7).exc # "none" THEN 7
  ELSE 0
\* symbol, side, order type and quantity are all valid
FirstFourValid(a) == \A j \in 1..4 : FieldOutcome(a, j).exc = "none"

\* C5: when one or more fields are invalid, the error reported is the one of
\* the earliest invalid field in the order symbol, side, order type,
\* quantity, price, stop price, time in force; later fields are not reported.
C5_FirstFailure ==
  pc # "Start" /\ FirstInvalid(args) # 0 =>
    /\ Returned
    /\ result = Some(HandleException(FieldOutcome(args, FirstInvalid(args))))
C5_Witness ==
  /\ Returned
  /\ validate_symbol(args.symbol).exc # "none"
  /\ validate_quantity(args.quantity).exc # "none"
  /\ validate_stop_price(args.stop_price).exc # "none"
  /\ result = Some(HandleException(validate_symbol(args.symbol)))

\* C6: a MARKET order whose symbol, side, quantity and stop price are valid
\* is validated whatever price and time in force were given, and its
\* parameters have neither a price nor a time in force.
C6_MarketIgnoresPriceAndTif ==
  /\ pc # "Start"
  /\ FirstFourValid(args)
  /\ validate_order_type(args.order_type).val = "MARKET"
  /\ validate_stop_price(args.stop_price).exc = "none"
  => /\ params # None
     /\ params[1].order_type = "MARKET"
     /\ params[1].price = None
     /\ params[1].time_in_force = None
C6_Witness ==
  /\ params # None
  /\ params[1].order_type = "MARKET"
  /\ args.price = Some(<< "a","b","c" >>)
  /\ args.time_in_force = Some(<< "D","A","Y" >>)
  /\ params[1].price = None
  /\ params[1].time_in_force = None

\* the decimal written by a price string, when it is strictly positive
PositivePrice(text) ==
  LET d == Decimal(Strip(text))
  IN  d.kind \in { "F", "Inf" } /\ ~ d.neg /\ ~ (d.kind = "F" /\ d.coef = 0)

\* C7: for a LIMIT order with a valid symbol, side and quantity: without a
\* price (None or "") validation fails with "Price is required for LIMIT
\* orders"; with a strictly positive decimal as price, and a valid stop
\* price and time in force, validation succeeds and the price of the
\* parameters is exactly that decimal; validated LIMIT parameters always
\* have a price.
C7_LimitPrice ==
  /\ pc # "Start"
       /\ FirstFourValid(args)
       /\ validate_order_type(args.order_type).val = "LIMIT"
     => /\ Falsy(args.price) =>
             result = Some(Failure(<< "Validation error: ",
                                      "Price is required for LIMIT orders" >>))
        /\ ( /\ ~ Falsy(args.price)
             /\ PositivePrice(args.price[1])
             /\ validate_stop_price(args.stop_price).exc = "none"
             /\ validate_time_in_force(args.time_in_force, "LIMIT").exc = "none" )
           => /\ params # None
              /\ params[1].price = Some(Decimal(Strip(args.price[1])))
  /\ params # None /\ params[1].order_type = "LIMIT" => params[1].price # None
C7_Witness ==
  /\ params # None
  /\ params[1].order_type = "LIMIT"
  /\ args.price = Some(<< " ","0",".","1","0" >>)
  /\ params[1].price = Some(Dec(FALSE, 10, -2))

\* the value of a parsed quantity against 0 and against 0.00001 = 10^-5:
\* coef * 10^exp >= 10^-5 iff exp >= -5 or coef has more than -5-exp digits
ParsedQuantity == Decimal(Strip(call.arg))
IsNumber(q) == q.kind \in { "F", "Inf" }
NotPositive(q) == q.neg \/ (q.kind = "F" /\ q.coef = 0)
AtLeastMinimum(q) ==
  /\ ~ NotPositive(q)
  /\ \/ q.kind = "Inf"
     \/ q.exp >= -5
     \/ Len(NatToDigits(q.coef)) > (-5) - q.exp

\* C8: for a quantity string that parses as a decimal q: q <= 0 is rejected
\* as not positive, 0 < q < 0.00001 is rejected as too small, and
\* q >= 0.00001 (the value 0.00001 included) is accepted and returned as q.
C8_QuantityRange ==
  call.fn = "validate_quantity" /\ ret.exc # "pending" /\ IsNumber(ParsedQuantity) =>
    LET q == ParsedQuantity
    IN  /\ NotPositive(q) =>
             ret = ValidationError(<< "Quantity must be positive, got: " >> \o DecStr(q))
        /\ ~ NotPositive(q) /\ ~ AtLeastMinimum(q) =>
             ret = ValidationError(<< "Quantity too small: " >> \o DecStr(q))
        /\ AtLeastMinimum(q) => ret = Return(q)
        /\ ret.exc = "none" => AtLeastMinimum(ret.val)
C8_Witness ==
  /\ call.fn = "validate_quantity"
  /\ call.arg = << "1", "e", "-", "5" >>
  /\ ret = Return(Dec(FALSE, 1, -5))

\* the symbol uppercased and trimmed, and the shape "5 to 12 letters A-Z"
NormalizedSymbol == Strip(Upper(call.arg))
FiveToTwelveLetters(s) ==
  /\ Len(s) \in 5..12
  /\ \A i \in 1..Len(s) : s[i] \in Range(Uppercase)
SymbolRule ==
  IF FiveToTwelveLetters(NormalizedSymbol)
  THEN ret.exc = "none" /\ ret.val = NormalizedSymbol
  ELSE ret.exc = "ValidationError" /\ Head(ret.msg) = "Invalid symbol format: '"

\* C9 as stated: every symbol string that is not 5 to 12 letters after
\* uppercasing and trimming is rejected with the invalid-format error, and
\* every other one is accepted and returned uppercased and trimmed.
C9_AsStated ==
  call.fn = "validate_symbol" /\ ret.exc # "pending" => SymbolRule

\* C9: the empty symbol is rejected with "Symbol cannot be empty"; every
\* other symbol string that is not 5 to 12 letters after uppercasing and
\* trimming is rejected with the invalid-format error, and every other one
\* is accepted and returned uppercased and trimmed, with or without the
\* USDT/BUSD suffix.
C9_SymbolFormat ==
  call.fn = "validate_symbol" /\ ret.exc # "pending" =>
    IF call.arg = << >>
    THEN ret = ValidationError(<< "Symbol cannot be empty" >>)
    ELSE SymbolRule
C9_Witness ==
  /\ call.fn = "validate_symbol"
  /\ ret.exc = "none"
  /\ ret.warn
  /\ ret.val = Rep("Z", 12)

\* whether msg contains the text part
Contains(msg, part) ==
  \E i \in 1..(Len(msg) - Len(part) + 1) : SubSeq(msg, i, i + Len(part) - 1) = part
TifRule(absent) ==
  call.fn = "validate_time_in_force" /\ ret.exc # "pending" /\ call.typ # "MARKET" =>
    IF absent
    THEN ret.exc = "none"
         /\ ret.val = (IF call.typ = "LIMIT" THEN Some("GTC") ELSE None)
    ELSE IF \E v \in Range(TimeInForce) : Spell(v) = Strip(Upper(call.arg[1]))
    THEN ret.exc = "none"
         /\ \E v \in Range(TimeInForce) :
              Spell(v) = Strip(Upper(call.arg[1])) /\ ret.val = Some(v)
    ELSE ret.exc = "ValidationError"
         /\ \A v \in Range(TimeInForce) : Contains(ret.msg, Spell(v))

\* C10 as stated: for an order type other than MARKET the time in force is
\* GTC for LIMIT and None otherwise when the input is None, the matching
\* member when the input names one, and any other input is rejected.
C10_AsStated == TifRule(call.arg = None)

\* C10: for an order type other than MARKET the time in force is GTC for
\* LIMIT and None otherwise when the input is None or "", the matching
\* member when the input (trimmed, case-insensitive) is GTC, IOC, FOK or
\* GTX, and any other input is rejected with an error that lists the four.
C10_TimeInForce == TifRule(Falsy(call.arg))
C10_Witness ==
  /\ call.fn = "validate_time_in_force"
  /\ call.typ = "STOP"
  /\ call.arg = Some(<< >>)
  /\ ret = Return(None)

\* symbol, side, order type, quantity and price are all valid
FirstFiveValid(a) == \A j \in 1..5 : FieldOutcome(a, j).exc = "none"
StopPriceErrors ==
  { "Invalid stop price format: '", "Stop price must be positive, got: " }

\* C11: the stop price is optional for every order type. With a valid
\* symbol, side, order type, quantity and price: an absent or empty stop
\* price is never the reason of a failure and leaves the stop price of the
\* validated parameters absent, also for STOP, STOP_MARKET, TAKE_PROFIT and
\* TAKE_PROFIT_MARKET; a stop price that is a strictly positive decimal is
\* the stop price of the validated parameters; any other stop price makes
\* validation fail with a stop price error.
C11_StopPriceOptional ==
  pc # "Start" /\ FirstFiveValid(args) =>
    IF Falsy(args.stop_price) \/ PositivePrice(args.stop_price[1])
    THEN /\ validate_time_in_force(args.time_in_force,
                                   validate_order_type(args.order_type).val).exc = "none"
            => params # None
         /\ params # None =>
              params[1].stop_price =
                (IF Falsy(args.stop_price) THEN None
                 ELSE Some(Decimal(Strip(args.stop_price[1]))))
         /\ params = None => ErrorMessage[2] \notin StopPriceErrors
    ELSE /\ params = None
         /\ Returned
         /\ ~ result[1].success
         /\ Head(ErrorMessage) = "Validation error: "
         /\ ErrorMessage[2] \in StopPriceErrors
C11_Witness ==
  /\ params # None
  /\ params[1].order_type = "STOP_MARKET"
  /\ args.stop_price = Some(<< >>)
  /\ params[1].stop_price = None

\* the HTTP exchange of the invocation answered with an error status
ErrorStatus == response # None /\ response[1].kind = "response" /\ response[1].status >= 400
\* the body of that answer is a JSON object with the fields code and msg
Structured ==
  /\ response[1].body.json = "object"
  /\ { "code", "msg" } \subseteq DOMAIN response[1].body.obj

\* C12: when the exchange answers the order request with a status >= 400
\* and a JSON object with code and msg, client.place_order raises a
\* BinanceAPIError with that code as error_code, that HTTP status as
\* status_code and a message that has the exchange message in it, and
\* place_order returns a failure whose message has both the code and the
\* exchange message in it.
C12_StructuredError ==
  ErrorStatus /\ Structured =>
    LET body == response[1].body.obj
    IN  /\ reply.exc = "BinanceAPIError"
        /\ reply.error_code = Some(body.code)
        /\ reply.status_code = Some(response[1].status)
        /\ Contains(reply.msg, body.msg)
        /\ pc # "Replied" =>
             /\ Returned
             /\ ~ result[1].success
             /\ Contains(ErrorMessage, IntToStr(body.code))
             /\ Contains(ErrorMessage, body.msg)
C12_Witness ==
  /\ Returned
  /\ response = Some([kind |-> "response", status |-> 400,
                      body |-> [json |-> "object", obj |-> ErrorBody]])
  /\ ~ result[1].success
  /\ Contains(ErrorMessage, << "-", "2", "0", "1", "0" >>)
  /\ Contains(ErrorMessage, << "Insufficient balance" >>)

\* C13: when the exchange answers with a status >= 400 and a body that is
\* not a JSON object with code and msg (a JSON body without those fields, or
\* a body that is not JSON), the client call raises an error that is not the
\* BinanceAPIError of structured error bodies and that carries the HTTP
\* status.
C13_UnstructuredError ==
  ErrorStatus /\ ~ Structured =>
    /\ reply.exc \notin { "none", "BinanceAPIError" }
    /\ reply.status_code = Some(response[1].status)

\* C14: the message of a failure starts with the category of the error that
\* ended the client call: "Binance API error: " for a BinanceAPIError,
\* "Client error: " for a BinanceNetworkError (timeout, connectivity) or a
\* BinanceAuthError, followed by the text of the error; a BinanceAPIError is
\* never reported under "Client error: ".
C14_CategoryPrefix ==
  Returned /\ reply.exc \in ClientErrors =>
    /\ ~ result[1].success
    /\ ErrorMessage =
         << (IF reply.exc = "BinanceAPIError" THEN "Binance API error: "
             ELSE "Client error: ") >> \o reply.msg
    /\ Head(ErrorMessage) = "Client error: " =>
         reply.exc \in { "BinanceNetworkError", "BinanceAuthError" }
C14_Witness ==
  /\ Returned
  /\ response # None
  /\ response[1].kind = "timeout"
  /\ reply.exc = "BinanceNetworkError"
  /\ ErrorMessage = << "Client error: ", "Request timed out: ", "timeout" >>

\* ------------------------------------------------------------------------
\* Cancellation, construction, price and exit status (SpecApp)
\* ------------------------------------------------------------------------
Stopped == pc \in { "Exited", "Done", "Raised" }
\* a cancellation that has a client: cancel_order of orders.py, or the
\* cancel command of the CLI once main has constructed its client
Cancelling == call.fn = "cancel_order" \/ (Running("cancel") /\ connection = "open")
CancelIds == IF IsMain THEN call.command ELSE call
\* a DELETE of the order endpoint whose last parameter is the signature of
\* the parameters before it, the timestamp being the last of these
SignedDelete(r) ==
  LET n == Len(r.params)
  IN  /\ r.method = "DELETE"
      /\ r.endpoint = "/fapi/v1/order"
      /\ n >= 3
      /\ r.params[n - 1][1] = "timestamp"
      /\ r.params[n] = << "signature", generate_signature(SubSeq(r.params, 1, n - 1)) >>
CancelRule(supplied) ==
  Cancelling =>
    /\ Len(sent) <= 1
    /\ \A i \in DOMAIN sent : SignedDelete(sent[i])
    /\ ~ supplied => sent = << >> /\ request = None
    /\ (supplied /\ Stopped) => Len(sent) = 1

\* C15 as stated: a cancellation with neither identifier sends nothing, and
\* one with at least one identifier supplied (not None) issues exactly one
\* signed DELETE
C15_AsStated ==
  CancelRule(CancelIds.order_id # None \/ CancelIds.client_order_id # None)

\* C15: a cancellation with no usable identifier (each of them None, the
\* order id 0 or the empty client order id) sends nothing, through
\* cancel_order and through the CLI; one with an order id other than 0 or a
\* non-empty client order id issues exactly one signed DELETE and no other
\* request
C15_CancelRequests ==
  CancelRule(\/ (CancelIds.order_id # None /\ CancelIds.order_id[1] # 0)
             \/ (CancelIds.client_order_id # None /\ CancelIds.client_order_id[1] # << >>))
\* the CLI cancel command, given an order id, has sent its one DELETE and
\* main has returned
C15_Witness ==
  /\ Running("cancel")
  /\ pc = "Exited"
  /\ call.command.order_id = Some(7)
  /\ call.command.client_order_id = None
  /\ Len(sent) = 1
  /\ SignedDelete(sent[1])

\* C16: whenever cancel_order of orders.py stops, on every input and every
\* outcome of the exchange short of an interrupt of the process, it has
\* returned {success: true, response} or {success: false, error}: no
\* exception has escaped it
C16_CancelNeverRaises ==
  (call.fn = "cancel_order" /\ Stopped /\ reply.exc # "KeyboardInterrupt") =>
    /\ pc = "Done"
    /\ ret.exc = "none"
    /\ \/ ret.val.success /\ DOMAIN ret.val = { "success", "response" }
       \/ ~ ret.val.success /\ DOMAIN ret.val = { "success", "error" }

\* the credential named var is missing or empty, as an argument of the
\* constructor (main passes none) and in the environment
Missing(arg, var) ==
  /\ IsMain \/ call[arg] = None \/ call[arg] = Some(<< >>)
  /\ env[var] = None \/ env[var] = Some(<< >>)
MissingCredentials ==
  /\ call.fn \in { "main", "BinanceFuturesClient" }
  /\ Missing("api_key", "BINANCE_API_KEY") \/ Missing("api_secret", "BINANCE_API_SECRET")
Constructed == reply # NoReply

\* C17: with the API key or the API secret missing or empty after the
\* environment fallback, constructing the client raises BinanceAuthError, no
\* connection is created and no request is built or sent; main is then
\* nowhere but before the construction or at its exit, no handler has run,
\* and its exit status is not 0
C17_MissingCredentials ==
  MissingCredentials =>
    /\ connection = "none"
    /\ request = None /\ sent = << >> /\ response = None
    /\ args = IdleArgs /\ ret = Pending /\ result = None
    /\ pc \in { "Main", "Construct", "Exited", "Raised" }
    /\ Constructed => reply.exc = "BinanceAuthError"
    /\ (Constructed /\ IsMain) => pc = "Exited" /\ exit_status \notin { None, Some(0) }
    /\ (Constructed /\ ~ IsMain) => pc = "Raised"
\* an order command run with the key set and the secret empty has exited
C17_Witness ==
  /\ Running("order")
  /\ env.BINANCE_API_KEY = Some(ApiKey)
  /\ env.BINANCE_API_SECRET = Some(<< >>)
  /\ reply.exc = "BinanceAuthError"
  /\ pc = "Exited"
  /\ exit_status = Some(1)

\* the ticker request got a JSON object with a price field
PriceReported ==
  /\ reply.exc = "none"
  /\ reply.val[1].json = "object"
  /\ "price" \in DOMAIN reply.val[1].obj

\* C18: get_current_price never raises (short of an interrupt of the
\* process); it has sent one unsigned GET of the ticker; a value other than
\* None that it returns is the decimal value of the price field of the
\* response, and it returns None whenever the request failed or the
\* response has no price field that is a decimal number
C18_PriceOrNone ==
  (call.fn = "get_current_price" /\ Stopped /\ reply.exc # "KeyboardInterrupt") =>
    /\ pc = "Done"
    /\ ret.exc = "none"
    /\ Len(sent) = 1
    /\ sent[1] = [method |-> "GET", endpoint |-> "/fapi/v1/ticker/price",
                  params |-> << << "symbol", call.symbol >> >>]
    /\ ret.val # None =>
         /\ PriceReported
         /\ ret.val[1] = Decimal(reply.val[1].obj.price)
    /\ ~ PriceReported => ret.val = None

\* the command of the CLI succeeded: the client was constructed, its one
\* request was answered with a status below 400 and a body that parsed, an
\* order was validated and mapped to a success result, a price was returned
CommandSucceeded ==
  /\ connection = "open"
  /\ Len(sent) = 1
  /\ response # None /\ response[1].kind = "response" /\ response[1].status < 400
  /\ reply.exc = "none"
  /\ Running("order") => params # None /\ result # None /\ result[1].success
  /\ Running("price") => ret.exc = "none" /\ ret.val # None
\* the failures of an invocation: a command line argparse rejects, missing
\* credentials, a validation failure, or an exception out of the client
\* (exchange error, network error, interrupt, anything unexpected)
CommandFailed ==
  \/ Running("usage")
  \/ ~ Running("none") /\ MissingCredentials
  \/ Running("order") /\ args # IdleArgs /\ params = None
  \/ reply.exc \notin { "none", "pending" }

\* C19: when main has returned it has an exit status; the status is 0 only
\* if no command was given or the command succeeded, and it is not 0 after
\* any failure
C19_ExitStatus ==
  (IsMain /\ pc = "Exited") =>
    /\ exit_status # None
    /\ exit_status = Some(0) => Running("none") \/ CommandSucceeded
    /\ CommandFailed => exit_status # Some(0)
\* the account command has exited with status 1 after a network error
C19_Witness ==
  /\ Running("account")
  /\ pc = "Exited"
  /\ reply.exc = "BinanceNetworkError"
  /\ exit_status = Some(1)

\* ------------------------------------------------------------------------
\* The stages of place_order (FairSpec)
\* ------------------------------------------------------------------------
\* Start and Validating (before validate_order_params has answered),
\* Signing, Sending, MappingResult, and the terminal states
PipelineStage ==
  CASE pc = "Start" -> 1
    [] pc = "Validated" -> 2
    [] pc = "Signed" -> 3
    [] pc = "Replied" -> 4
    [] pc \in { "Done", "Raised" } -> 5
Failed == result = None \/ ~ result[1].success
ValidationFailed == Finished /\ sent = << >> /\ params = None /\ Failed
TransportFailed == Finished /\ Len(sent) = 1 /\ params # None /\ Failed
Completed == Finished /\ Len(sent) = 1 /\ params # None /\ ~ Failed
Bit(p) == IF p THEN 1 ELSE 0
StageFacts ==
  /\ (pc \in { "Validated", "Signed", "Replied" } \/ request # None \/ sent # << >>) =>
       params # None
  /\ pc \in { "Start", "Validated" } => request = None /\ sent = << >> /\ reply = NoReply
  /\ pc = "Signed" => request # None /\ sent = << >> /\ reply = NoReply
  /\ pc = "Replied" => sent = << request[1] >> /\ reply.exc # "pending"
  /\ result # None => pc = "Done" /\ (params = None \/ reply.exc # "pending")
  /\ ~ Finished => result = None
  /\ Finished => Bit(ValidationFailed) + Bit(TransportFailed) + Bit(Completed) = 1
Advances ==
  /\ ~ Finished
  /\ PipelineStage' \in { PipelineStage + 1, 5 }
  /\ PipelineStage' > PipelineStage

\* C20: an invocation of place_order goes through its stages in order, each
\* step leaving the stage it is in for the next one or for a terminal state
\* and none returning to an earlier stage; a request is signed and sent only
\* with validated parameters, a result is mapped only after validation
\* failed or the exchange was answered; every invocation eventually stops,
\* in exactly one of validation failed, transport failed and done, and takes
\* no step from there
C20_Pipeline ==
  /\ []StageFacts
  /\ [][Advances]_vars
  /\ <>Finished
\* an invocation that went through every stage and stopped with a success
C20_Witness ==
  /\ Completed
  /\ PipelineStage = 5
  /\ request # None
  /\ response # None /\ response[1].status = 200

\* ------------------------------------------------------------------------
\* Signing and the parameters of the order request
\* ------------------------------------------------------------------------
ParamKeys(ps) == { ps[i][1] : i \in DOMAIN ps }
\* the endpoints the client calls with signed = False
UnsignedEndpoints == { "/fapi/v1/ticker/price" }
\* the readings of the millisecond clock, as the text urlencode makes of them
Timestamps == { IntToStr(t) : t \in 1..MaxTime }
\* the last parameter is the signature: the HMAC-SHA256, keyed by the
\* secret, of the URL-encoded parameters before it, of which the timestamp
\* is the last and none is a signature
ProperlySigned(ps) ==
  LET n == Len(ps)
      signed_text == SubSeq(ps, 1, n - 1)
  IN  /\ n >= 2
      /\ ps[n - 1][1] = "timestamp"
      /\ ps[n - 1][2] \in Timestamps
      /\ \A i \in 1..(n - 2) : ps[i][1] \notin { "timestamp", "signature" }
      /\ ps[n][1] = "signature"
      /\ ps[n][2] = << "HMAC-SHA256(" >> \o ApiSecret \o << "," >>
                      \o urlencode(signed_text) \o << ")" >>
SigningRule(r) ==
  IF r.endpoint \in UnsignedEndpoints
  THEN ParamKeys(r.params) \cap { "timestamp", "signature" } = {}
  ELSE ProperlySigned(r.params)

\* C21: every request built for a signed call, and every one sent, carries
\* a timestamp and, as its last parameter, the HMAC-SHA256 signature keyed
\* by the secret of the URL-encoded parameters including the timestamp and
\* no signature; an unsigned request carries neither
C21_Signing ==
  /\ request # None => SigningRule(request[1])
  /\ \A i \in DOMAIN sent : SigningRule(sent[i])
\* a signed order request with a price has been sent
C21_Witness ==
  /\ Len(sent) = 1
  /\ sent[1].method = "POST"
  /\ "price" \in ParamKeys(sent[1].params)
  /\ ProperlySigned(sent[1].params)

\* the values a parameter list gives to a key
ParamValues(ps, k) == { ps[i][2] : i \in { j \in DOMAIN ps : ps[j][1] = k } }
\* the key is in the list exactly when the OrderParams have the field, and
\* then once, with the text of the field's value
Conditional(ps, k, field, text) ==
  IF field = None THEN k \notin ParamKeys(ps) ELSE ParamValues(ps, k) = { text }
OrderRequestRule(r, spec) ==
  /\ r.method = "POST"
  /\ r.endpoint = "/fapi/v1/order"
  /\ ProperlySigned(r.params)
  /\ Len(r.params) = Cardinality(ParamKeys(r.params))
  /\ ParamKeys(r.params) \subseteq
       { "symbol", "side", "type", "quantity", "price", "stopPrice", "timeInForce",
         "timestamp", "signature" }
  /\ ParamValues(r.params, "symbol") = { spec.symbol }
  /\ ParamValues(r.params, "side") = { Spell(spec.side) }
  /\ ParamValues(r.params, "type") = { Spell(spec.order_type) }
  /\ ParamValues(r.params, "quantity") = { DecStr(spec.quantity) }
  /\ Conditional(r.params, "price", spec.price,
                 IF spec.price = None THEN << >> ELSE DecStr(spec.price[1]))
  /\ Conditional(r.params, "stopPrice", spec.stop_price,
                 IF spec.stop_price = None THEN << >> ELSE DecStr(spec.stop_price[1]))
  /\ Conditional(r.params, "timeInForce", spec.time_in_force,
                 IF spec.time_in_force = None THEN << >> ELSE Spell(spec.time_in_force[1]))

\* C22: once the arguments are validated, the request that place_order
\* builds and sends is a signed POST to /fapi/v1/order whose parameters
\* come from the validated OrderParams alone: symbol, side, type and
\* quantity with the validated values, and price, stopPrice and timeInForce
\* exactly when the OrderParams have them
C22_OrderRequest ==
  /\ request # None => params # None /\ OrderRequestRule(request[1], params[1])
  /\ \A i \in DOMAIN sent : request # None /\ sent[i] = request[1]
  /\ (params # None /\ pc \notin { "Start", "Validated" }) => request # None
  /\ (params # None /\ pc \notin { "Start", "Validated", "Signed" }) => Len(sent) = 1
\* a LIMIT order with a stop price was sent from raw arguments that were
\* not yet normalized
C22_Witness ==
  /\ Len(sent) = 1
  /\ params # None
  /\ params[1].stop_price # None
  /\ params[1].price # None
  /\ params[1].time_in_force # None
  /\ args.symbol # params[1].symbol
  /\ "stopPrice" \in ParamKeys(sent[1].params)

\* ------------------------------------------------------------------------
\* The end of an invocation of the CLI (SpecApp)
\* ------------------------------------------------------------------------
\* C23: when main has returned, the connection its client opened is not
\* open any more: it was closed on the way out, whether the command
\* succeeded, failed in validation or in transport, raised or was
\* interrupted
C23_ConnectionReleased ==
  (IsMain /\ pc = "Exited") => connection # "open"

\* the process was interrupted while the order request was waiting for the
\* answer of the exchange
InterruptedOrder ==
  /\ Running("order")
  /\ response # None
  /\ response[1].kind = "interrupt"

\* C24: an interrupt that arrives while place_order waits for the exchange
\* leaves place_order as an exception and never as an OrderResult; main
\* then returns 130, a status no other end of an order command has: those
\* are 0 for a success result and 1 for a failure
C24_Interrupt ==
  /\ InterruptedOrder =>
       /\ reply.exc = "KeyboardInterrupt"
       /\ result = None
       /\ pc \in { "Replied", "Raised", "Exited" }
       /\ pc = "Exited" => exit_status = Some(130)
  /\ (Running("order") /\ pc = "Exited" /\ ~ InterruptedOrder) =>
       /\ exit_status \in { Some(0), Some(1) }
       /\ exit_status = Some(0) <=> (result # None /\ result[1].success)
\* main has returned 130 after the interrupt of a sent order request
C24_Witness ==
  /\ InterruptedOrder
  /\ Len(sent) = 1
  /\ pc = "Exited"
  /\ exit_status = Some(130)
====
